---- MODULE Spec2Model ----
(***************************************************************************)
(* A model of the letters e-mail parser (github.com/rorycl/letters):       *)
(* Parser.Parse, stagedEmail.parseHeaders, stagedEmail.parseBody,          *)
(* stagedEmail.parsePart and the decode pipeline of package decoders.      *)
(*                                                                         *)
(* Strings that the code inspects byte by byte (bodies, decoded text) are  *)
(* sequences of byte values; content types are sequences of tokens, so     *)
(* that strings.HasPrefix is the prefix relation on sequences.             *)
(***************************************************************************)
EXTENDS Integers, Sequences, FiniteSets, TLC

VARIABLES parser, msg, pc, contentInfo, email, stack, perr, ret, partsLeft, hist, calls

vars == <<parser, msg, pc, contentInfo, email, stack, perr, ret, partsLeft, hist, calls>>

-----------------------------------------------------------------------------
(* Bounds of the model.                                                    *)

\* the number of MIME parts one message may hold, over all nesting levels
MaxParts == 3

\* the nesting depth of multipart parts below the root multipart
MaxDepth == 1

\* the length of the body of a message whose root is a text type
MaxBody == 3

\* the number of address, date, Subject and Comments headers with a value
MaxHdrs == 1

\* the most characters of an In-Reply-To value
MaxIdLen == 3

-----------------------------------------------------------------------------
(* Byte strings.                                                           *)

Range(s) == {s[i] : i \in 1..Len(s)}

SeqsUpTo(S, n) == UNION {[1..k -> S] : k \in 0..n}

\* strings.HasPrefix
HasPrefix(s, p) == Len(s) >= Len(p) /\ SubSeq(s, 1, Len(p)) = p

HasSuffix(s, p) == Len(s) >= Len(p) /\ SubSeq(s, Len(s) - Len(p) + 1, Len(s)) = p

Drop(s, n) == SubSeq(s, n + 1, Len(s))

CRLF == <<13, 10>>

LF == <<10>>

\* bytes.ReplaceAll(textBody, "\r\n", "\n")
RECURSIVE ReplaceCRLF(_)
ReplaceCRLF(s) ==
    IF s = <<>> THEN <<>>
    ELSE IF HasPrefix(s, CRLF) THEN LF \o ReplaceCRLF(Drop(s, 2))
    ELSE <<s[1]>> \o ReplaceCRLF(Drop(s, 1))

\* the white space strings.TrimSpace removes: the ASCII characters
\* \t \n \v \f \r and space, and the UTF-8 forms of U+0085 and U+00A0
AsciiSpace == {9, 10, 11, 12, 13, 32}

Utf8Space == {<<194, 133>>, <<194, 160>>}

RECURSIVE TrimLeft(_)
TrimLeft(s) ==
    IF s = <<>> THEN <<>>
    ELSE IF s[1] \in AsciiSpace THEN TrimLeft(Drop(s, 1))
    ELSE IF Len(s) >= 2 /\ SubSeq(s, 1, 2) \in Utf8Space THEN TrimLeft(Drop(s, 2))
    ELSE s

RECURSIVE TrimRight(_)
TrimRight(s) ==
    IF s = <<>> THEN <<>>
    ELSE IF s[Len(s)] \in AsciiSpace THEN TrimRight(SubSeq(s, 1, Len(s) - 1))
    ELSE IF Len(s) >= 2 /\ SubSeq(s, Len(s) - 1, Len(s)) \in Utf8Space
         THEN TrimRight(SubSeq(s, 1, Len(s) - 2))
    ELSE s

\* strings.TrimSpace
TrimSpace(s) == TrimRight(TrimLeft(s))

-----------------------------------------------------------------------------
(* The decode pipeline, decoders.DecodeContent.  A decoder yields          *)
(* [ok, bytes]: ok is FALSE when reading the decoded stream fails.         *)

Decoded(b) == [ok |-> TRUE, bytes |-> b]

DecodeFailed == [ok |-> FALSE, bytes |-> <<>>]

\* the value of a character of the standard base64 alphabet, -1 for others
B64Val(c) ==
    IF c \in 65..90 THEN c - 65
    ELSE IF c \in 97..122 THEN c - 71
    ELSE IF c \in 48..57 THEN c + 4
    ELSE IF c = 43 THEN 62
    ELSE IF c = 47 THEN 63
    ELSE -1

\* base64toraw.NewBase64ToRaw: the stream without its "=" padding
Base64ToRaw(s) == SelectSeq(s, LAMBDA c : c # 61)

RECURSIVE B64Groups(_)
B64Groups(v) ==
    IF Len(v) = 0 THEN <<>>
    ELSE IF Len(v) = 2 THEN <<(v[1] * 4 + v[2] \div 16) % 256>>
    ELSE IF Len(v) = 3
         THEN <<(v[1] * 4 + v[2] \div 16) % 256, (v[2] * 16 + v[3] \div 4) % 256>>
    ELSE <<(v[1] * 4 + v[2] \div 16) % 256,
           (v[2] * 16 + v[3] \div 4) % 256,
           (v[3] * 64 + v[4]) % 256>> \o B64Groups(Drop(v, 4))

\* base64.NewDecoder(base64.RawStdEncoding, ...): line breaks are ignored,
\* any other character outside the alphabet and a lone trailing character
\* are corrupt input
Base64Decode(s) ==
    LET t == SelectSeq(Base64ToRaw(s), LAMBDA c : c \notin {13, 10})
        v == [i \in 1..Len(t) |-> B64Val(t[i])]
    IN IF (\E i \in 1..Len(v) : v[i] < 0) \/ Len(v) % 4 = 1
       THEN DecodeFailed
       ELSE Decoded(B64Groups(v))

\* the lines of s, each with its terminating "\n" (bufio.Reader.ReadSlice)
RECURSIVE ReadLines(_)
ReadLines(s) ==
    IF s = <<>> THEN <<>>
    ELSE LET n == IF \E i \in 1..Len(s) : s[i] = 10
                  THEN CHOOSE i \in 1..Len(s) : s[i] = 10 /\ \A j \in 1..(i - 1) : s[j] # 10
                  ELSE Len(s)
         IN <<SubSeq(s, 1, n)>> \o ReadLines(Drop(s, n))

HexVal(c) ==
    IF c \in 48..57 THEN c - 48
    ELSE IF c \in 65..70 THEN c - 55
    ELSE IF c \in 97..102 THEN c - 87
    ELSE -1

RECURSIVE QPTrimRight(_)
QPTrimRight(l) ==
    IF l # <<>> /\ l[Len(l)] \in {32, 10, 13, 9}
    THEN QPTrimRight(SubSeq(l, 1, Len(l) - 1))
    ELSE l

\* the bytes of one prepared line of quoted-printable text
RECURSIVE QPBytes(_)
QPBytes(l) ==
    IF l = <<>> THEN Decoded(<<>>)
    ELSE IF l[1] = 61
    THEN IF Len(l) >= 3 /\ HexVal(l[2]) >= 0 /\ HexVal(l[3]) >= 0
         THEN LET r == QPBytes(Drop(l, 3))
              IN IF r.ok THEN Decoded(<<HexVal(l[2]) * 16 + HexVal(l[3])>> \o r.bytes)
                 ELSE DecodeFailed
         ELSE IF Len(l) >= 2 /\ l[2] \notin {13, 10}
         THEN LET r == QPBytes(Drop(l, 1))
              IN IF r.ok THEN Decoded(<<61>> \o r.bytes) ELSE DecodeFailed
         ELSE DecodeFailed
    ELSE IF l[1] \notin {9, 13, 10} /\ l[1] < 128 /\ (l[1] < 32 \/ l[1] > 126)
    THEN DecodeFailed
    ELSE LET r == QPBytes(Drop(l, 1))
         IN IF r.ok THEN Decoded(<<l[1]>> \o r.bytes) ELSE DecodeFailed

\* one line of quotedprintable.Reader: trailing white space is dropped, a
\* trailing "=" is a soft line break, a hard line break is kept
QPLine(whole, last) ==
    LET stripped == QPTrimRight(whole)
        right == Drop(whole, Len(stripped))
        soft == stripped # <<>> /\ stripped[Len(stripped)] = 61
        line == IF soft THEN SubSeq(stripped, 1, Len(stripped) - 1)
                ELSE IF HasSuffix(whole, CRLF) THEN stripped \o CRLF
                ELSE IF HasSuffix(whole, LF) THEN stripped \o LF
                ELSE stripped
        bad == soft /\ ~HasPrefix(right, LF) /\ ~HasPrefix(right, CRLF)
                    /\ ~(right = <<>> /\ line # <<>> /\ last)
        r == QPBytes(line)
    IN IF bad \/ ~r.ok THEN DecodeFailed ELSE r

RECURSIVE QPLines(_)
QPLines(ls) ==
    IF ls = <<>> THEN Decoded(<<>>)
    ELSE LET h == QPLine(ls[1], Len(ls) = 1)
             r == QPLines(Drop(ls, 1))
         IN IF h.ok /\ r.ok THEN Decoded(h.bytes \o r.bytes) ELSE DecodeFailed

\* quotedprintable.NewReader
QPDecode(s) == QPLines(ReadLines(s))

-----------------------------------------------------------------------------
(* Errors: the innermost message, the contexts fmt.Errorf("...: %w") wraps *)
(* around it (outermost first) and the value the error carries.            *)

NoErr == [msg |-> "", ctx |-> <<>>, arg |-> <<>>]

NewErr(m, a) == [msg |-> m, ctx |-> <<>>, arg |-> a]

\* fmt.Errorf(c + ": %w", e)
Wrap(c, e) == [e EXCEPT !.ctx = <<c>> \o @]

\* errors.Is(e, target): target is e or one of the errors e wraps
ErrorsIs(e, target) == \E k \in 0..Len(e.ctx) : [e EXCEPT !.ctx = Drop(e.ctx, k)] = target

errorEmptyAddress == NewErr("Empty Address", <<>>)

errorEmptyDate == NewErr("Empty Date", <<>>)

UnknownContentTypeError(t) == NewErr("unknown Content-Type", t)

-----------------------------------------------------------------------------
(* Content types and ContentInfo.                                          *)

TextPlain == <<"text", "/", "plain">>

TextEnriched == <<"text", "/", "enriched">>

TextHTML == <<"text", "/", "html">>

TextCalendar == <<"text", "/", "calendar">>

ImagePng == <<"image", "/", "png">>

ApplicationPdf == <<"application", "/", "pdf">>

ApplicationOther == <<"application", "/", "x-other">>

MultipartMixed == <<"multipart", "/", "mixed">>

MultipartRelated == <<"multipart", "/", "related">>

\* a type whose name begins with the letters of "multipart" but which is
\* not a multipart/* type, such as multipart-extension/data
MultipartLike == <<"multipart", "-extension", "/", "data">>

\* the absent *email.ContentInfo
NilCI == [Type |-> <<>>, Boundary |-> "", Disposition |-> "", Named |-> FALSE,
          Heuristic |-> FALSE, TransferEncoding |-> "", Charset |-> ""]

\* the Content-* headers of a message or part, as the header block declares
\* them; ok is FALSE for a block ExtractContentInfo rejects
ContentHeader(t, b, d, n, h, te, cs) ==
    [ok |-> TRUE, Type |-> t, Boundary |-> b, Disposition |-> d, Named |-> n,
     Heuristic |-> h, TransferEncoding |-> te, Charset |-> cs]

\* email.ExtractContentInfo(header, parent): the declared values, with the
\* parent's transfer encoding and charset where the part declares none
ExtractContentInfo(h, parent) ==
    [Type |-> h.Type, Boundary |-> h.Boundary, Disposition |-> h.Disposition,
     Named |-> h.Named, Heuristic |-> h.Heuristic,
     TransferEncoding |-> IF h.TransferEncoding = "" THEN parent.TransferEncoding
                          ELSE h.TransferEncoding,
     Charset |-> IF h.Charset = "" THEN parent.Charset ELSE h.Charset]

IsTextType(t) == t \in {TextPlain, TextEnriched, TextHTML}

IsBinaryType(t) == t # <<>> /\ t[1] # "text" /\ ~HasPrefix(t, <<"multipart">>)

\* ContentInfo.IsInlineFile
IsInlineFile(ci) ==
    /\ ci.Disposition # "attachment"
    /\ IsBinaryType(ci.Type)
    /\ (ci.Named \/ ci.Disposition = "inline")

\* ContentInfo.IsAttachedFile
IsAttachedFile(ci) ==
    /\ IsBinaryType(ci.Type)
    /\ (ci.Disposition = "attachment" \/ ci.Heuristic)

\* ContentInfo.ExtractEncoding: the decoder of the charset label, "" for none
ExtractEncoding(ci) == IF ci.Charset = "iso-8859-1" THEN "latin1" ELSE ""

\* transform.NewReader(r, encoding.NewDecoder()) for the Latin-1 table
RECURSIVE Latin1ToUTF8(_)
Latin1ToUTF8(s) ==
    IF s = <<>> THEN <<>>
    ELSE (IF s[1] < 128 THEN <<s[1]>> ELSE <<192 + (s[1] \div 64), 128 + (s[1] % 64)>>)
         \o Latin1ToUTF8(Drop(s, 1))

\* the switch on ci.TransferEncoding of DecodeContent
TransferDecode(content, ci) ==
    IF ci.TransferEncoding = "base64" THEN Base64Decode(content)
    ELSE IF ci.TransferEncoding = "quoted-printable" THEN QPDecode(content)
    ELSE Decoded(content)

\* the charset step of DecodeContent on the transfer-decoded stream r
CharsetDecode(r, ci) ==
    IF ExtractEncoding(ci) = "" \/ ~r.ok THEN r ELSE Decoded(Latin1ToUTF8(r.bytes))

\* decoders.DecodeContent
DecodeContent(content, ci) == CharsetDecode(TransferDecode(content, ci), ci)

\* parseText without strings.TrimSpace
TextOfUntrimmed(r) ==
    IF ~r.ok
    THEN [text |-> <<>>,
          err |-> Wrap("cannot read plain text content", NewErr("read", <<>>))]
    ELSE [text |-> ReplaceCRLF(r.bytes), err |-> NoErr]

\* parseText after io.ReadAll(reader), r being what was read
TextOf(r) ==
    IF ~r.ok
    THEN [text |-> <<>>,
          err |-> Wrap("cannot read plain text content", NewErr("read", <<>>))]
    ELSE [text |-> TrimSpace(ReplaceCRLF(r.bytes)), err |-> NoErr]

\* stagedEmail.parseText: [text, err]
parseText(t, ci) == TextOf(DecodeContent(t, ci))

-----------------------------------------------------------------------------
(* Header values are strings of tokens.  An RFC 2047 encoded word is the   *)
(* five tokens "=?", charset, "?q?", text, "?=".                           *)

KnownCharsets == {"utf-8", "iso-8859-1"}

EncodedWord(cs, text) == <<"=?", cs, "?q?", text, "?=">>

IsEncodedWordAt(s) == Len(s) >= 5 /\ s[1] = "=?" /\ s[3] = "?q?" /\ s[5] = "?="

\* decoders.DecodeHeader: [val, err]
RECURSIVE DecodeHeader(_)
DecodeHeader(s) ==
    IF s = <<>> THEN [val |-> <<>>, err |-> NoErr]
    ELSE IF IsEncodedWordAt(s)
    THEN IF s[2] \notin KnownCharsets
         THEN [val |-> <<>>,
               err |-> Wrap("cannot decode MIME-word-encoded header",
                            NewErr("encoding lookup failed", <<s[2]>>))]
         ELSE LET r == DecodeHeader(Drop(s, 5))
              IN IF r.err # NoErr THEN r
                 ELSE [val |-> (IF s[4] = "" THEN <<>> ELSE <<s[4]>>) \o r.val,
                       err |-> NoErr]
    ELSE LET r == DecodeHeader(Drop(s, 1))
         IN IF r.err # NoErr THEN r ELSE [val |-> <<s[1]>> \o r.val, err |-> NoErr]

\* strings.TrimSpace on a header value
RECURSIVE TrimTokens(_)
TrimTokens(s) ==
    IF s # <<>> /\ s[1] = " " THEN TrimTokens(Drop(s, 1))
    ELSE IF s # <<>> /\ s[Len(s)] = " " THEN TrimTokens(SubSeq(s, 1, Len(s) - 1))
    ELSE s

-----------------------------------------------------------------------------
(* The values of header fields and the injected functions.  A value is    *)
(* [fn, arg]: the function that produced it and the string it was given.   *)

\* a nil *mail.Address or []*mail.Address
Nil == [fn |-> "nil", arg |-> <<>>]

\* an empty, non-nil []*mail.Address
EmptyList == [fn |-> "empty", arg |-> <<>>]

\* time.Time{}
ZeroTime == [fn |-> "zero", arg |-> <<>>]

StringValue(s) == [fn |-> "string", arg |-> s]

\* the strings net/mail parses
WellFormedAddress == {<<"a@x">>}

WellFormedDate == {<<"1 Jan 2024 00:00:00 +0000">>}

\* the function a Parser field holds, applied to s: [val, err].  "custom"
\* is a function of the caller that returns one fixed value, "failing" a
\* function of the caller that returns an error.
Apply(f, default, wellFormed, zero, s) ==
    IF f = "default"
    THEN IF s \in wellFormed THEN [val |-> [fn |-> default, arg |-> s], err |-> NoErr]
         ELSE [val |-> zero, err |-> NewErr(default, s)]
    ELSE IF f = "custom" THEN [val |-> [fn |-> "custom", arg |-> <<>>], err |-> NoErr]
    ELSE [val |-> zero, err |-> NewErr("custom failure", s)]

\* the record of one call of an injected function; parseHeaders adds the
\* header the call was made for
InjectedCall(fn, s) == [fn |-> fn, arg |-> s, field |-> ""]

\* the result r of an injected function, with the record of its call
Called(r, fn, s) == [val |-> r.val, err |-> r.err, calls |-> <<InjectedCall(fn, s)>>]

\* parseAddresses after decoders.DecodeHeader, d being its result
addressesDecoded(p, d) ==
    IF d.err # NoErr
    THEN [val |-> EmptyList, err |-> Wrap("cannot decode address", d.err), calls |-> <<>>]
    ELSE Called(Apply(p.addressesFunc, "mail.ParseAddressList", WellFormedAddress, Nil,
                      d.val),
                "addressesFunc", d.val)

\* stagedEmail.parseAddresses: [val, err, calls]
parseAddresses(p, s) ==
    IF s = <<>> THEN [val |-> Nil, err |-> errorEmptyAddress, calls |-> <<>>]
    ELSE addressesDecoded(p, DecodeHeader(s))

\* parseAddress after decoders.DecodeHeader, d being its result
addressDecoded(p, d) ==
    IF d.err # NoErr
    THEN [val |-> Nil, err |-> Wrap("cannot decode address", d.err), calls |-> <<>>]
    ELSE Called(Apply(p.addressFunc, "mail.ParseAddress", WellFormedAddress, Nil, d.val),
                "addressFunc", d.val)

\* stagedEmail.parseAddress: [val, err, calls]
parseAddress(p, s) ==
    IF s = <<>> THEN [val |-> Nil, err |-> errorEmptyAddress, calls |-> <<>>]
    ELSE addressDecoded(p, DecodeHeader(s))

\* callDateFunc of parseHeaders: [val, err, calls]
callDateFunc(p, s) ==
    IF s = <<>> THEN [val |-> ZeroTime, err |-> errorEmptyDate, calls |-> <<>>]
    ELSE Called(Apply(p.dateFunc, "mail.ParseDate", WellFormedDate, ZeroTime, s),
                "dateFunc", s)

StringDecoded(d) == [val |-> StringValue(d.val), err |-> d.err, calls |-> <<>>]

\* getDecodedString of parseHeaders: [val, err, calls]
getDecodedString(s) == StringDecoded(DecodeHeader(TrimTokens(s)))

\* the headers parseHeaders reads through parseAddress, parseAddresses,
\* callDateFunc and getDecodedString, in the order of the code
AddressHeaders == <<"Sender", "From", "Reply-To", "To", "Cc", "Bcc", "Resent-From",
                    "Resent-Sender", "Resent-To", "Resent-Cc", "Resent-Bcc">>

DateHeaders == <<"Date", "Resent-Date">>

StringHeaders == <<"Subject", "Comments">>

HeaderOrder == AddressHeaders \o DateHeaders \o StringHeaders

HeaderNames == Range(HeaderOrder)

\* net/mail.Header.Get: the first value of the field, "" without one
Get(header, field) == header[field]

\* the function parseHeaders reads a header with
ReadHeader(p, field, s) ==
    IF field \in {"Sender", "Resent-Sender"} THEN parseAddress(p, s)
    ELSE IF field \in Range(AddressHeaders) THEN parseAddresses(p, s)
    ELSE IF field \in Range(DateHeaders) THEN callDateFunc(p, s)
    ELSE getDecodedString(s)

\* the error "errors.Is(errorEmpty..., err)" excuses for the field, NoErr
\* for Subject and Comments, which excuse none
EmptyError(field) ==
    IF field \in Range(AddressHeaders) THEN errorEmptyAddress
    ELSE IF field \in Range(DateHeaders) THEN errorEmptyDate
    ELSE NoErr

\* "if err != nil { return ... }": no empty value excused
IsFatalAnyError(field, err) == err # NoErr

\* "if !errors.Is(err, errorEmpty...)" taken for a test of the error's kind:
\* every error of an address or date header excused
IsFatalOnlyStrings(field, err) == err # NoErr /\ EmptyError(field) = NoErr

\* "if err != nil { if !errors.Is(errorEmpty..., err) { return ... } }"
IsFatal(field, err) ==
    err # NoErr /\ (EmptyError(field) = NoErr \/ ~ErrorsIs(EmptyError(field), err))

StepResult(field, r) ==
    [val |-> r.val, calls |-> r.calls,
     err |-> IF IsFatal(field, r.err) THEN Wrap(field, r.err) ELSE NoErr]

\* one "if h.X, err = ...; err != nil { ... return ... }" step of
\* parseHeaders: [val, err, calls], err being the error parseHeaders
\* returns at this step, NoErr when it goes on
HeaderStep(p, header, field) == StepResult(field, ReadHeader(p, field, Get(header, field)))

\* the zero value of email.Headers
ZeroHeaders ==
    [f \in HeaderNames |->
        IF f \in Range(DateHeaders) THEN ZeroTime
        ELSE IF f \in Range(StringHeaders) THEN StringValue(<<>>)
        ELSE Nil]

\* the headers read so far with the result r of the step for field f
Assigned(acc, f, r) ==
    [h |-> [acc.h EXCEPT ![f] = r.val], err |-> r.err,
     calls |-> acc.calls \o [i \in 1..Len(r.calls) |-> [r.calls[i] EXCEPT !.field = f]]]

\* stagedEmail.parseHeaders from step i on: [h, err, calls]; the headers
\* read at step i are one value a, which the steps after it go on from
RECURSIVE parseHeadersFrom(_, _, _, _)
parseHeadersFrom(p, header, i, acc) ==
    IF i > Len(HeaderOrder) \/ acc.err # NoErr THEN acc
    ELSE CHOOSE r \in {parseHeadersFrom(p, header, i + 1, a) :
                          a \in {Assigned(acc, HeaderOrder[i],
                                          HeaderStep(p, header, HeaderOrder[i]))}} : TRUE

\* stagedEmail.parseHeaders: [h, err, calls]
parseHeaders(p, header, h) ==
    parseHeadersFrom(p, header, 1, [h |-> h, err |-> NoErr, calls |-> <<>>])

-----------------------------------------------------------------------------
(* The headers parseHeaders reads without an injected function.  The raw   *)
(* header of a message is header, the first value of each header of        *)
(* HeaderOrder, and raw, the values of the other headers in the order of   *)
(* their occurrences.  The values of the message ids and keywords are      *)
(* sequences of characters.                                                *)

\* explicitHeaders, the names as mail.ReadMessage writes them
explicitHeaders ==
    {"Date", "Sender", "From", "Reply-To", "To", "Cc", "Bcc", "Message-Id", "In-Reply-To",
     "References", "Received", "Subject", "Comments", "Keywords", "Resent-Date",
     "Resent-From", "Resent-Sender", "Resent-To", "Resent-Cc", "Resent-Bcc",
     "Resent-Message-Id", "Content-Transfer-Encoding", "Content-Type",
     "Content-Disposition"}

\* the search of a list that lacks Subject and Received
isExplicitHeaderShortList(k) == k \in explicitHeaders \ {"Subject", "Received"}

\* isExplicitHeader
isExplicitHeader(k) == k \in explicitHeaders

\* names outside explicitHeaders
ExtraNames == {"X-Mailer", "X-Tag"}

\* the names of msg.raw
RawNames ==
    {"Received", "Message-Id", "In-Reply-To", "References", "Keywords",
     "Resent-Message-Id"} \cup ExtraNames

\* se.msg.Header[key]: the values of the header in the order they occur
Values(m, key) ==
    IF key \in HeaderNames
    THEN IF m.header[key] = <<>> THEN <<>> ELSE <<m.header[key]>>
    ELSE IF key \in RawNames THEN m.raw[key]
    ELSE IF key = "Content-Type" /\ m.content.Type # <<>> THEN <<m.content.Type>>
    ELSE <<>>

\* the keys of se.msg.Header
Keys(m) == {k \in HeaderNames \cup RawNames \cup {"Content-Type"} : Values(m, k) # <<>>}

\* se.msg.Header.Get(key) for the headers of msg.raw
GetRaw(m, key) == IF m.raw[key] = <<>> THEN <<>> ELSE m.raw[key][1]

\* "val, _ := decoders.DecodeHeader(val); h.ExtraHeaders[key] = append(...)"
DecodedValues(vs) == [i \in 1..Len(vs) |-> DecodeHeader(vs[i]).val]

\* the loop over se.msg.Header that fills h.ExtraHeaders
ExtraHeaders(m) ==
    [k \in {key \in Keys(m) : ~isExplicitHeader(key)} |-> DecodedValues(Values(m, k))]

idTrimCutset == {"<", ">", " ", "\n"}

\* the white space of strings.TrimSpace among the characters of a value
WhiteChars == {" ", "\t", "\n", "\r"}

\* strings.Trim(s, cutset)
RECURSIVE Trim(_, _)
Trim(s, cutset) ==
    IF s # <<>> /\ s[1] \in cutset THEN Trim(Drop(s, 1), cutset)
    ELSE IF s # <<>> /\ s[Len(s)] \in cutset THEN Trim(SubSeq(s, 1, Len(s) - 1), cutset)
    ELSE s

\* strings.Split(s, sep) for a separator of one character
RECURSIVE Split(_, _)
Split(s, sep) ==
    IF \A i \in 1..Len(s) : s[i] # sep THEN <<s>>
    ELSE <<SubSeq(s, 1, (CHOOSE i \in 1..Len(s) :
                            s[i] = sep /\ \A j \in 1..(i - 1) : s[j] # sep) - 1)>>
         \o Split(Drop(s, CHOOSE i \in 1..Len(s) :
                              s[i] = sep /\ \A j \in 1..(i - 1) : s[j] # sep), sep)

NonEmpty(t) == t # <<>>

\* getID: "strings.Trim(s, idTrimCutset)"
getID(s) == Trim(s, idTrimCutset)

\* the loop of getIDs over the tokens ts
TrimmedIDs(ts) == [i \in 1..Len(ts) |-> Trim(Trim(ts[i], idTrimCutset), WhiteChars)]

\* getIDs: the ids of strings.Split(s, " "), trimmed, the empty ones left out
getIDs(s) == SelectSeq(TrimmedIDs(Split(s, " ")), NonEmpty)

\* the loop of getCSV over the parts ps
TrimmedParts(ps) == [i \in 1..Len(ps) |-> Trim(ps[i], WhiteChars)]

\* getCSV: the parts of strings.Split(s, ","), trimmed, the empty ones left out
getCSV(s) == SelectSeq(TrimmedParts(Split(s, ",")), NonEmpty)

\* "if ids := ...; len(ids) > 0 { h.X = ids }": the field, nil when not set
ListField(l) == IF Len(l) > 0 THEN [fn |-> "list", arg |-> l] ELSE Nil

\* the headers parseHeaders reads after Comments, when it comes to them
TailHeaders(m) ==
    [Received |-> ListField(Values(m, "Received")),
     MessageID |-> getID(GetRaw(m, "Message-Id")),
     InReplyTo |-> ListField(getIDs(GetRaw(m, "In-Reply-To"))),
     References |-> ListField(getIDs(GetRaw(m, "References"))),
     Keywords |-> ListField(getCSV(GetRaw(m, "Keywords"))),
     ResentMessageID |-> getID(GetRaw(m, "Resent-Message-Id"))]

\* the same fields of the zero value of email.Headers
ZeroTail ==
    [Received |-> Nil, MessageID |-> <<>>, InReplyTo |-> Nil, References |-> Nil,
     Keywords |-> Nil, ResentMessageID |-> <<>>]

\* se.email.Headers when parseHeaders returns, r being the result of the
\* steps of HeaderOrder: ExtraHeaders is filled before them, the headers
\* after Comments are read when none of them failed
HeadersRecord(m, ci, r) ==
    [fields |-> r.h, ContentInfo |-> ci, ExtraHeaders |-> ExtraHeaders(m),
     tail |-> IF r.err = NoErr THEN TailHeaders(m) ELSE ZeroTail]

-----------------------------------------------------------------------------
(* The parser, the staged e-mail and the files.                           *)

wholeEmail == "wholeEmail"

headersOnly == "headersOnly"

noAttachments == "noAttachments"

\* Parser.inSkipContentTypes
inSkipContentTypes(p, t) == t \in p.skipContentTypes

\* &email.Email{}
ZeroEmail ==
    [Headers |-> [fields |-> ZeroHeaders, ContentInfo |-> NilCI,
                  ExtraHeaders |-> [k \in {} |-> <<>>],
                  tail |-> ZeroTail],
     Text |-> <<>>, EnrichedText |-> <<>>, HTML |-> <<>>, Files |-> <<>>]

HandlerCall(fn) == [fn |-> fn, arg |-> <<>>, field |-> ""]

\* stagedEmail.parseFile with the default fileFunc, which reads the
\* transfer-decoded payload into File.Data: [files, err, calls]
parseFileRead(files, ci, r) ==
    [files |-> IF r.ok
               THEN Append(files, [FileType |-> IF IsInlineFile(ci) THEN "inline"
                                                ELSE "attachment",
                                   ContentInfo |-> ci, Data |-> r.bytes])
               ELSE files,
     err |-> IF r.ok THEN NoErr ELSE NewErr("read", <<>>),
     calls |-> <<HandlerCall("parseFile"), [fn |-> "fileFunc", arg |-> ci.Type, field |-> ""]>>]

parseFile(files, body, ci) == parseFileRead(files, ci, TransferDecode(body, ci))

\* the classifier with the text and multipart types tested before the
\* disposition
ClassifyTypeFirst(p, ci) ==
    IF inSkipContentTypes(p, ci.Type) THEN "skip"
    ELSE IF ci.Type = TextPlain THEN "plain"
    ELSE IF ci.Type = TextEnriched THEN "enriched"
    ELSE IF ci.Type = TextHTML THEN "html"
    ELSE IF HasPrefix(ci.Type, <<"multipart">>) THEN "recurse"
    ELSE IF ci.Disposition = "attachment" THEN "attachment"
    ELSE IF IsInlineFile(ci) THEN "inline"
    ELSE IF IsAttachedFile(ci) THEN "attached"
    ELSE IF ci.Type = TextCalendar THEN "ignored"
    ELSE "unknown"

\* the classifier with the skip-list consulted after the disposition
ClassifySkipLate(p, ci) ==
    IF ci.Disposition = "attachment" THEN "attachment"
    ELSE IF inSkipContentTypes(p, ci.Type) THEN "skip"
    ELSE IF ci.Type = TextPlain THEN "plain"
    ELSE IF ci.Type = TextEnriched THEN "enriched"
    ELSE IF ci.Type = TextHTML THEN "html"
    ELSE IF HasPrefix(ci.Type, <<"multipart">>) THEN "recurse"
    ELSE IF IsInlineFile(ci) THEN "inline"
    ELSE IF IsAttachedFile(ci) THEN "attached"
    ELSE IF ci.Type = TextCalendar THEN "ignored"
    ELSE "unknown"

\* the part of parsePart that decides what is done with a part, in the
\* order of the code's tests
Classify(p, ci) ==
    IF inSkipContentTypes(p, ci.Type) THEN "skip"
    ELSE IF ci.Disposition = "attachment" THEN "attachment"
    ELSE IF ci.Type = TextPlain THEN "plain"
    ELSE IF ci.Type = TextEnriched THEN "enriched"
    ELSE IF ci.Type = TextHTML THEN "html"
    ELSE IF HasPrefix(ci.Type, <<"multipart">>) THEN "recurse"
    ELSE IF IsInlineFile(ci) THEN "inline"
    ELSE IF IsAttachedFile(ci) THEN "attached"
    ELSE IF ci.Type = TextCalendar THEN "ignored"
    ELSE "unknown"

\* the append with the separator written before every part
AppendPlainAlways(text, t) == text \o <<10, 10>> \o t

\* "if len(se.email.Text) > 0 { se.email.Text += "\n\n" }; se.email.Text += t"
AppendPlain(text, t) == (IF Len(text) > 0 THEN text \o <<10, 10>> ELSE text) \o t

\* the switch with the test of parsePart for the multipart types,
\* strings.HasPrefix(ct, "multipart")
RootDispatchNoSlash(ct) ==
    IF IsTextType(ct) THEN "parseBody"
    ELSE IF HasPrefix(ct, <<"multipart">>) THEN "parsePart"
    ELSE "parseFile"

\* the root dispatch of Parse: the switch on se.contentInfo.Type
RootDispatch(ct) ==
    IF IsTextType(ct) THEN "parseBody"
    ELSE IF HasPrefix(ct, <<"multipart", "/">>) THEN "parsePart"
    ELSE "parseFile"

-----------------------------------------------------------------------------
(* The messages and parsers the model runs Parse on.                       *)

\* one MIME part as the multipart reader yields it: its Content-* headers
\* and its body
Part(t, b, d, n, h, te, cs, body) ==
    [ok |-> TRUE, Type |-> t, Boundary |-> b, Disposition |-> d, Named |-> n,
     Heuristic |-> h, TransferEncoding |-> te, Charset |-> cs, body |-> body]

TextBodies == {<<>>, <<97>>, <<32, 98, 13, 10>>}

FileBody == <<37, 80, 68, 70>>

\* "YQ==", the base64 form of "a"
Base64Body == <<89, 81, 61, 61>>

PlainParts ==
    {Part(TextPlain, "", "", FALSE, FALSE, "", "", b) : b \in TextBodies}
    \cup {Part(TextPlain, "", "", FALSE, FALSE, "base64", "", Base64Body)}

OtherTextParts ==
    {Part(TextHTML, "", "", FALSE, FALSE, "", "", <<97>>),
     Part(TextEnriched, "", "", FALSE, FALSE, "", "", <<97>>),
     Part(TextPlain, "", "attachment", TRUE, FALSE, "", "", <<97>>)}

FileParts ==
    {Part(ImagePng, "", "inline", TRUE, FALSE, "", "", FileBody),
     Part(ImagePng, "", "attachment", TRUE, FALSE, "", "", FileBody),
     Part(ApplicationPdf, "", "", FALSE, TRUE, "", "", FileBody),
     Part(ApplicationOther, "", "", FALSE, FALSE, "", "", FileBody),
     Part(TextCalendar, "", "", FALSE, FALSE, "", "", <<97>>)}

MultipartParts ==
    {Part(MultipartMixed, "b1", "", FALSE, FALSE, "", "iso-8859-1", <<>>),
     Part(MultipartRelated, "", "", FALSE, FALSE, "", "", <<>>),
     Part(MultipartMixed, "b1", "attachment", TRUE, FALSE, "", "", FileBody),
     Part(MultipartLike, "b1", "", FALSE, FALSE, "", "", <<>>)}

\* a part whose header block ExtractContentInfo rejects
MalformedParts ==
    {[Part(TextPlain, "", "", FALSE, FALSE, "", "", <<>>) EXCEPT !.ok = FALSE]}

PartInputs == PlainParts \cup OtherTextParts \cup FileParts \cup MultipartParts
              \cup MalformedParts

SkipLists == {{}, {ImagePng, MultipartRelated}}

ProcessTypes == {wholeEmail, headersOnly, noAttachments}

NoHeaders == [f \in HeaderNames |-> <<>>]

AddressValues ==
    {<<"a@x">>, <<"bad">>, EncodedWord("utf-8", "a@x"), EncodedWord("zz", "x"),
     EncodedWord("utf-8", "")}

DateValues == {<<"1 Jan 2024 00:00:00 +0000">>, <<"bad">>}

StringValues == {<<" ", "hi", " ">>, EncodedWord("utf-8", "hi"), EncodedWord("zz", "x")}

ValuesOf(f) ==
    IF f \in Range(AddressHeaders) THEN AddressValues
    ELSE IF f \in Range(DateHeaders) THEN DateValues
    ELSE StringValues

\* the header blocks with a value in at most n of the headers
HeadersUpTo(n) ==
    UNION {
        {[f \in HeaderNames |-> IF f \in S THEN v[f] ELSE <<>>] :
            v \in {w \in [S -> AddressValues \cup DateValues \cup StringValues] :
                      \A f \in S : w[f] \in ValuesOf(f)}} :
        S \in {T \in SUBSET HeaderNames : Cardinality(T) <= n}}

Parser(pt, skip, fn) ==
    [processType |-> pt, skipContentTypes |-> skip, addressFunc |-> fn,
     addressesFunc |-> fn, dateFunc |-> fn, fileFunc |-> "default"]

\* a header without any of the headers of RawNames
NoRaw == [k \in RawNames |-> <<>>]

Message(ok, header, content, body) ==
    [readOK |-> ok, header |-> header, raw |-> NoRaw, content |-> content, body |-> body]

\* multipart messages, whose parts the reader yields one by one
MultipartContents ==
    {ContentHeader(MultipartMixed, "b0", "", FALSE, FALSE, "", ""),
     ContentHeader(MultipartMixed, "", "", FALSE, FALSE, "", "")}

\* a multipart root that declares a transfer encoding and a charset
EncodedMultipartContent ==
    ContentHeader(MultipartMixed, "b0", "", FALSE, FALSE, "base64", "iso-8859-1")

\* the modes and skip lists on the multipart messages without an encoding
\* of their own, noAttachments with the skip list alone; the whole e-mail
\* of the message with an encoding
InitMultipart ==
    /\ \/ /\ parser \in {Parser(pt, skip, "default") :
                            pt \in ProcessTypes, skip \in SkipLists}
                        \ {Parser(noAttachments, {}, "default")}
          /\ msg \in {Message(TRUE, NoHeaders, c, <<>>) : c \in MultipartContents}
       \/ /\ parser = Parser(wholeEmail, {}, "default")
          /\ msg = Message(TRUE, NoHeaders, EncodedMultipartContent, <<>>)
    /\ partsLeft = MaxParts

\* messages with a text/plain body and up to MaxHdrs headers
InitHeaders ==
    /\ parser \in {Parser(pt, {}, fn) :
                      pt \in ProcessTypes, fn \in {"default", "custom", "failing"}}
    /\ msg \in {Message(TRUE, h, ContentHeader(TextPlain, "", "", FALSE, FALSE, "", ""),
                        <<97>>) : h \in HeadersUpTo(MaxHdrs)}
    /\ partsLeft = 0

BodyChars == {97, 32, 13, 10, 61, 160}

TransferEncodings == {"", "base64", "quoted-printable"}

\* messages that are one text/plain body of up to MaxBody bytes
InitPlain ==
    /\ parser \in {Parser(pt, {}, "default") : pt \in {wholeEmail, noAttachments}}
    /\ msg \in {Message(TRUE, NoHeaders,
                        ContentHeader(TextPlain, "", "", FALSE, FALSE, te, cs), b) :
                   te \in TransferEncodings, cs \in {"", "iso-8859-1"},
                   b \in SeqsUpTo(BodyChars, MaxBody)}
    /\ partsLeft = 0

\* messages that are one body of another type, and messages that
\* mail.ReadMessage or email.ExtractContentInfo rejects
InitSingle ==
    /\ parser \in {Parser(pt, {}, "default") : pt \in ProcessTypes}
    /\ msg \in {Message(TRUE, NoHeaders, ContentHeader(t, "", d, FALSE, FALSE, te, ""), b) :
                   t \in {TextHTML, TextEnriched, ImagePng, MultipartLike, TextCalendar},
                   d \in {"", "attachment"}, te \in {"", "base64"},
                   b \in {<<97>>, <<97, 97, 13, 10>>}}
               \cup {Message(FALSE, NoHeaders, NilCI @@ [ok |-> FALSE], <<>>),
                     Message(TRUE, NoHeaders, NilCI @@ [ok |-> FALSE], <<>>)}
    /\ partsLeft = 0

\* the values of a header outside explicitHeaders, and of Received
ExtraValues == {<<"hi">>, EncodedWord("utf-8", "hi"), EncodedWord("zz", "x")}

ReceivedValues == {<<"by a">>, <<"by b">>}

\* the lists of one or two occurrences of values of V, and no occurrence
Occurrences(V) == {<<>>} \cup {<<v>> : v \in V} \cup {<<v, w>> : v \in V, w \in V}

\* the characters of the values of In-Reply-To and References
IdChars == {"a", "<", ">", " ", "\t"}

ReferencesValues == {<<>>, <<"<", "a", ">", " ", "<", "b", ">">>, <<"<", "a", ">", "\t", "<", "b", ">">>}

MessageIdValues == {<<>>, <<"<", "a", ">">>}

KeywordsValues == {<<>>, <<"a", ",", " ", "b", ",">>}

\* the list of the one value v, none when v is empty
One(v) == IF v = <<>> THEN <<>> ELSE <<v>>

\* messages with headers outside explicitHeaders and Received headers
ExtraRaws ==
    {[NoRaw EXCEPT !["X-Mailer"] = x, !["X-Tag"] = y, !["Received"] = r] :
        x \in Occurrences(ExtraValues), y \in Occurrences(ExtraValues),
        r \in Occurrences(ReceivedValues)}

\* the values of In-Reply-To: mail.ReadMessage leaves no space or tab at
\* either end of a header value
InReplyToValues ==
    {v \in SeqsUpTo(IdChars, MaxIdLen) :
        v = <<>> \/ (v[1] \notin {" ", "\t"} /\ v[Len(v)] \notin {" ", "\t"})}

\* messages with message ids and keywords
IdRaws ==
    {[NoRaw EXCEPT !["In-Reply-To"] = One(i), !["References"] = One(r),
                   !["Message-Id"] = One(m), !["Resent-Message-Id"] = One(m),
                   !["Keywords"] = One(k)] :
        i \in InReplyToValues, r \in ReferencesValues, m \in MessageIdValues,
        k \in KeywordsValues}

\* a header with a Subject, and one whose From the address function rejects
SomeHeaders ==
    {NoHeaders, [NoHeaders EXCEPT !["Subject"] = <<"hi">>],
     [NoHeaders EXCEPT !["From"] = <<"bad">>]}

\* messages with a text/plain body and the headers parseHeaders reads
\* without an injected function
InitRaw ==
    /\ parser = Parser(wholeEmail, {}, "default")
    /\ msg \in {[Message(TRUE, h, ContentHeader(TextPlain, "", "", FALSE, FALSE, "", ""),
                          <<97>>) EXCEPT !.raw = r] :
                   h \in SomeHeaders, r \in ExtraRaws \cup IdRaws}
    /\ partsLeft = 0

Init ==
    /\ InitMultipart \/ InitHeaders \/ InitPlain \/ InitSingle \/ InitRaw
    /\ pc = "ReadMessage"
    /\ contentInfo = NilCI
    /\ email = ZeroEmail
    /\ stack = <<>>
    /\ perr = NoErr
    /\ ret = [returned |-> FALSE, email |-> <<>>, err |-> NoErr]
    /\ hist = <<>>
    /\ calls = <<>>

-----------------------------------------------------------------------------
(* Parser.Parse.                                                           *)

\* "return se.email, err": the staged e-mail returned with the error
ReturnErrorWithEmail(e) ==
    /\ ret' = [returned |-> TRUE, email |-> <<email>>, err |-> e]
    /\ pc' = "done"

\* "return nil, err"
ReturnError(e) ==
    /\ ret' = [returned |-> TRUE, email |-> <<>>, err |-> e]
    /\ pc' = "done"

\* "return se.email, nil", given the e-mail as it is when Parse returns
ReturnEmail(e) ==
    /\ ret' = [returned |-> TRUE, email |-> <<e>>, err |-> NoErr]
    /\ pc' = "done"

\* se.msg, err = mail.ReadMessage(r)
ReadMessage ==
    /\ pc = "ReadMessage"
    /\ IF msg.readOK THEN pc' = "ExtractContentInfo" /\ UNCHANGED ret
       ELSE ReturnError(Wrap("cannot read message", NewErr("mail", <<>>)))
    /\ UNCHANGED <<parser, msg, contentInfo, email, stack, perr, partsLeft, hist, calls>>

\* se.contentInfo, err = email.ExtractContentInfo(se.msg.Header, nil)
ExtractRootContentInfo ==
    /\ pc = "ExtractContentInfo"
    /\ IF msg.content.ok
       THEN /\ contentInfo' = ExtractContentInfo(msg.content, NilCI)
            /\ pc' = "parseHeaders"
            /\ UNCHANGED ret
       ELSE /\ ReturnError(Wrap("cannot extract content", NewErr("content", <<>>)))
            /\ UNCHANGED contentInfo
    /\ UNCHANGED <<parser, msg, email, stack, perr, partsLeft, hist, calls>>

AfterParseHeaders(r) ==
    /\ email' = [email EXCEPT !.Headers = HeadersRecord(msg, contentInfo, r)]
    /\ calls' = calls \o r.calls
    /\ IF r.err # NoErr THEN ReturnError(Wrap("cannot parse headers", r.err))
       ELSE pc' = "dispatch" /\ UNCHANGED ret

\* err = se.parseHeaders(), and the return of Parse on its error
ParseHeaders ==
    /\ pc = "parseHeaders"
    /\ \E r \in {parseHeaders(parser, msg.header, email.Headers.fields)} :
           AfterParseHeaders(r)
    /\ UNCHANGED <<parser, msg, contentInfo, stack, perr, partsLeft, hist>>

\* the test of the mode against the wrong processing type
IsHeadersOnlyWrongMode(p) == p.processType = noAttachments

\* "p.processType == headersOnly"
IsHeadersOnly(p) == p.processType = headersOnly

\* "if p.processType == headersOnly { return se.email, nil }"
HeadersOnlyReturn ==
    /\ pc = "dispatch"
    /\ IsHeadersOnly(parser)
    /\ ReturnEmail(email)
    /\ UNCHANGED <<parser, msg, contentInfo, email, stack, perr, partsLeft, hist, calls>>

\* parseBody after se.parseText, r being its result
parseBodyText(e, ci, r) ==
       IF ci.Type = TextPlain
       THEN [email |-> [e EXCEPT !.Text = r.text],
             err |-> IF r.err # NoErr THEN Wrap("cannot parse plain text", r.err)
                     ELSE NoErr]
       ELSE IF ci.Type = TextEnriched
       THEN [email |-> [e EXCEPT !.EnrichedText = r.text],
             err |-> IF r.err # NoErr THEN Wrap("cannot parse enriched text", r.err)
                     ELSE NoErr]
       ELSE IF ci.Type = TextHTML
       THEN [email |-> [e EXCEPT !.HTML = r.text],
             err |-> IF r.err # NoErr THEN Wrap("cannot parse html text", r.err)
                     ELSE NoErr]
       ELSE [email |-> e, err |-> NewErr("parse body content type not known", ci.Type)]

\* stagedEmail.parseBody: [email, err]
parseBody(e, body, ci) == parseBodyText(e, ci, parseText(body, ci))

AfterParseBody(r) ==
    /\ email' = r.email
    /\ IF r.err # NoErr THEN ReturnError(r.err) ELSE ReturnEmail(r.email)

\* case ct == "text/plain", ct == "text/enriched", ct == "text/html"
ParseBody ==
    /\ pc = "dispatch"
    /\ ~IsHeadersOnly(parser)
    /\ RootDispatch(contentInfo.Type) = "parseBody"
    /\ AfterParseBody(parseBody(email, msg.body, contentInfo))
    /\ calls' = calls \o <<HandlerCall("parseBody"), HandlerCall("parseText")>>
    /\ UNCHANGED <<parser, msg, contentInfo, stack, perr, partsLeft, hist>>

\* case strings.HasPrefix(ct, "multipart/"): the call of parsePart
ParseRootParts ==
    /\ pc = "dispatch"
    /\ ~IsHeadersOnly(parser)
    /\ RootDispatch(contentInfo.Type) = "parsePart"
    /\ stack' = <<[parentCI |-> contentInfo, boundary |-> contentInfo.Boundary]>>
    /\ pc' = "parsePart"
    /\ calls' = Append(calls, HandlerCall("parsePart"))
    /\ UNCHANGED <<parser, msg, contentInfo, email, perr, ret, partsLeft, hist>>

AfterRootFile(r) ==
    /\ email' = [email EXCEPT !.Files = r.files]
    /\ calls' = calls \o r.calls
    /\ IF r.err # NoErr THEN ReturnError(r.err)
       ELSE ReturnEmail([email EXCEPT !.Files = r.files])

\* default: err = se.parseFile(se.msg.Body, se.contentInfo)
ParseRootFile ==
    /\ pc = "dispatch"
    /\ ~IsHeadersOnly(parser)
    /\ RootDispatch(contentInfo.Type) = "parseFile"
    /\ AfterRootFile(parseFile(email.Files, msg.body, contentInfo))
    /\ UNCHANGED <<parser, msg, contentInfo, stack, perr, partsLeft, hist>>

-----------------------------------------------------------------------------
(* stagedEmail.parsePart.  stack holds the calls of parsePart in progress, *)
(* the innermost last; perr is the error a call has just returned.  Each   *)
(* action below is one turn of the loop: NextPart, ExtractContentInfo and  *)
(* the branch taken for the part.                                          *)

Top == stack[Len(stack)]

\* a reader that takes an empty boundary for the end of the parts
CanReadPartsAnyBoundary(boundary) == boundary \in {"", "b0", "b1"}

\* multipart.NewReader(msg, boundary) and NextPart: a reader with an empty
\* boundary yields no part and no io.EOF, only an error
CanReadParts(boundary) == boundary # ""

InLoop == pc = "parsePart" /\ perr = NoErr /\ stack # <<>>

\* a reader that yields a part without moving on in its input
YieldsSamePart(h) ==
    /\ InLoop
    /\ CanReadParts(Top.boundary)
    /\ partsLeft > 0
    /\ h \in PartInputs
    /\ partsLeft' = partsLeft

\* multipartReader.NextPart() yields the part h
Yields(h) ==
    /\ InLoop
    /\ CanReadParts(Top.boundary)
    /\ partsLeft > 0
    /\ h \in PartInputs
    /\ partsLeft' = partsLeft - 1

\* email.ExtractContentInfo(part.Header, se.contentInfo)
PartContentInfo(h) == ExtractContentInfo(h, contentInfo)

Seen(h, class) ==
    hist' = Append(hist, [part |-> h, ci |-> PartContentInfo(h), depth |-> Len(stack),
                          class |-> class, parent |-> Top.parentCI])

\* the return of one call of parsePart: to its caller in parsePart, which
\* goes on or wraps the error, or to Parse, which returns
Return(e, err) ==
    IF Len(stack) = 1
    THEN /\ stack' = <<>>
         /\ perr' = NoErr
         /\ IF err # NoErr THEN ReturnError(err) ELSE ReturnEmail(e)
    ELSE /\ stack' = SubSeq(stack, 1, Len(stack) - 1)
         /\ perr' = IF err # NoErr THEN Wrap("cannot parse nested part", err) ELSE NoErr
         /\ UNCHANGED <<pc, ret>>

\* NextPart returns io.EOF: "break" and "return nil"
NextPartEOF ==
    /\ InLoop
    /\ CanReadParts(Top.boundary)
    /\ Return(email, NoErr)
    /\ UNCHANGED <<parser, msg, contentInfo, email, partsLeft, hist, calls>>

\* NextPart returns another error: the boundary is empty, or the input ends
\* before the closing boundary
NextPartError ==
    /\ InLoop
    /\ Return(email, Wrap("cannot read part",
                          NewErr(IF ~CanReadParts(Top.boundary) THEN "multipart: boundary is empty"
                                 ELSE "multipart: NextPart: EOF", <<>>)))
    /\ UNCHANGED <<parser, msg, contentInfo, email, partsLeft, hist, calls>>

\* the caller's "if err != nil { return fmt.Errorf(...) }" after a nested call
ReturnNestedError ==
    /\ pc = "parsePart"
    /\ perr # NoErr
    /\ stack # <<>>
    /\ Return(email, perr)
    /\ UNCHANGED <<parser, msg, contentInfo, email, partsLeft, hist, calls>>

\* ExtractContentInfo fails on the part's header
PartContentError ==
    \E h \in PartInputs :
        /\ Yields(h)
        /\ ~h.ok
        /\ hist' = Append(hist, [part |-> h, ci |-> NilCI, depth |-> Len(stack),
                                 class |-> "error", parent |-> Top.parentCI])
        /\ Return(email, Wrap("content extraction error", NewErr("content", <<>>)))
        /\ UNCHANGED <<parser, msg, contentInfo, email, calls>>

\* "if se.parser.inSkipContentTypes(contentInfo.Type) { continue }"
SkipPart ==
    \E h \in PartInputs :
        /\ Yields(h)
        /\ h.ok
        /\ Classify(parser, PartContentInfo(h)) = "skip"
        /\ Seen(h, "skip")
        /\ UNCHANGED <<parser, msg, pc, contentInfo, email, stack, perr, ret, calls>>

AfterPartFile(context, r) ==
    /\ calls' = calls \o r.calls
    /\ email' = [email EXCEPT !.Files = r.files]
    /\ IF r.err # NoErr
       THEN Return(email, Wrap(context, r.err))
       ELSE UNCHANGED <<pc, stack, perr, ret>>

\* the file branches: parseFile and the return on its error
FileBranch(h, class, context) ==
    /\ Seen(h, class)
    /\ AfterPartFile(context, parseFile(email.Files, h.body, PartContentInfo(h)))

\* "if contentInfo.Disposition == "attachment""
AttachmentPart ==
    \E h \in PartInputs :
        /\ Yields(h)
        /\ h.ok
        /\ Classify(parser, PartContentInfo(h)) = "attachment"
        /\ FileBranch(h, "attachment", "cannot parse attached file")
        /\ UNCHANGED <<parser, msg, contentInfo>>

AfterPartText(context, field, r) ==
    /\ calls' = Append(calls, HandlerCall("parseText"))
    /\ IF r.err # NoErr
       THEN /\ Return(email, Wrap(context, r.err))
            /\ UNCHANGED email
       ELSE /\ email' = [email EXCEPT
                           ![field] = IF field = "Text" THEN AppendPlain(@, r.text)
                                      ELSE @ \o r.text]
            /\ UNCHANGED <<pc, stack, perr, ret>>

\* the three text branches: parseText, the append and the return on error
TextBranch(h, class, context, field) ==
    /\ Seen(h, class)
    /\ AfterPartText(context, field, parseText(h.body, PartContentInfo(h)))

\* "if contentInfo.Type == "text/plain""
PlainTextPart ==
    \E h \in PartInputs :
        /\ Yields(h)
        /\ h.ok
        /\ Classify(parser, PartContentInfo(h)) = "plain"
        /\ TextBranch(h, "plain", "cannot parse plain text", "Text")
        /\ UNCHANGED <<parser, msg, contentInfo>>

\* "if contentInfo.Type == "text/enriched""
EnrichedTextPart ==
    \E h \in PartInputs :
        /\ Yields(h)
        /\ h.ok
        /\ Classify(parser, PartContentInfo(h)) = "enriched"
        /\ TextBranch(h, "enriched", "cannot parse enriched text", "EnrichedText")
        /\ UNCHANGED <<parser, msg, contentInfo>>

\* "if contentInfo.Type == "text/html""
HTMLPart ==
    \E h \in PartInputs :
        /\ Yields(h)
        /\ h.ok
        /\ Classify(parser, PartContentInfo(h)) = "html"
        /\ TextBranch(h, "html", "cannot parse html text", "HTML")
        /\ UNCHANGED <<parser, msg, contentInfo>>

\* "if strings.HasPrefix(contentInfo.Type, "multipart")": the nested call
NestedPart ==
    \E h \in PartInputs :
        /\ Yields(h)
        /\ h.ok
        /\ Classify(parser, PartContentInfo(h)) = "recurse"
        /\ Len(stack) <= MaxDepth
        /\ Seen(h, "recurse")
        /\ stack' = Append(stack, [parentCI |-> PartContentInfo(h),
                                   boundary |-> PartContentInfo(h).Boundary])
        /\ calls' = Append(calls, HandlerCall("parsePart"))
        /\ UNCHANGED <<parser, msg, pc, contentInfo, email, perr, ret>>

\* "if contentInfo.IsInlineFile(contentInfo)"
InlineFilePart ==
    \E h \in PartInputs :
        /\ Yields(h)
        /\ h.ok
        /\ Classify(parser, PartContentInfo(h)) = "inline"
        /\ IF parser.processType # wholeEmail
           THEN /\ Seen(h, "inline")
                /\ UNCHANGED <<pc, email, stack, perr, ret, calls>>
           ELSE FileBranch(h, "inline", "cannot parse inline file")
        /\ UNCHANGED <<parser, msg, contentInfo>>

\* "if contentInfo.IsAttachedFile(contentInfo)"
AttachedFilePart ==
    \E h \in PartInputs :
        /\ Yields(h)
        /\ h.ok
        /\ Classify(parser, PartContentInfo(h)) = "attached"
        /\ IF parser.processType # wholeEmail
           THEN /\ Seen(h, "attached")
                /\ UNCHANGED <<pc, email, stack, perr, ret, calls>>
           ELSE FileBranch(h, "attached", "cannot parse attached file")
        /\ UNCHANGED <<parser, msg, contentInfo>>

\* case "text/calendar": continue
IgnoredPart ==
    \E h \in PartInputs :
        /\ Yields(h)
        /\ h.ok
        /\ Classify(parser, PartContentInfo(h)) = "ignored"
        /\ Seen(h, "ignored")
        /\ UNCHANGED <<parser, msg, pc, contentInfo, email, stack, perr, ret, calls>>

\* "return &UnknownContentTypeError{contentType: contentInfo.Type}"
UnknownPart ==
    \E h \in PartInputs :
        /\ Yields(h)
        /\ h.ok
        /\ Classify(parser, PartContentInfo(h)) = "unknown"
        /\ Seen(h, "unknown")
        /\ Return(email, UnknownContentTypeError(PartContentInfo(h).Type))
        /\ UNCHANGED <<parser, msg, contentInfo, email, calls>>

Next ==
    \/ ReadMessage
    \/ ExtractRootContentInfo
    \/ ParseHeaders
    \/ HeadersOnlyReturn
    \/ ParseBody
    \/ ParseRootParts
    \/ ParseRootFile
    \/ NextPartEOF
    \/ NextPartError
    \/ ReturnNestedError
    \/ PartContentError
    \/ SkipPart
    \/ AttachmentPart
    \/ PlainTextPart
    \/ EnrichedTextPart
    \/ HTMLPart
    \/ NestedPart
    \/ InlineFilePart
    \/ AttachedFilePart
    \/ IgnoredPart
    \/ UnknownPart

Spec == Init /\ [][Next]_vars

\* multipart messages parsed whole without a skip list, and without
\* attachments with one
LiveMultipart ==
    /\ parser \in {Parser(wholeEmail, {}, "default")}
                  \cup {Parser(noAttachments, skip, "default") : skip \in SkipLists \ {{}}}
    /\ msg \in {Message(TRUE, NoHeaders, c, <<>>) : c \in MultipartContents}
    /\ partsLeft = MaxParts

\* the messages whose parts, root body or headers decide the steps Parse
\* takes: a message of InitPlain or InitRaw takes the steps of a message
\* of InitHeaders, with another body or other header values
LiveInit ==
    /\ LiveMultipart \/ InitSingle \/ InitHeaders
    /\ pc = "ReadMessage"
    /\ contentInfo = NilCI
    /\ email = ZeroEmail
    /\ stack = <<>>
    /\ perr = NoErr
    /\ ret = [returned |-> FALSE, email |-> <<>>, err |-> NoErr]
    /\ hist = <<>>
    /\ calls = <<>>

\* Parse is one sequential call: it goes on as long as it has a step to take
LiveSpec == LiveInit /\ [][Next]_vars /\ WF_vars(Next)

-----------------------------------------------------------------------------
(* Properties.  Each is stated over what Parse was given (msg, parser),    *)
(* what it returned (ret), the parts the traversal has read (hist) and the *)
(* functions it has called (calls).                                        *)

Succeeded == ret.returned /\ ret.err = NoErr

Failed == ret.returned /\ ret.err # NoErr

\* the calls made so far of the functions in fns
CallsOf(fns) == {i \in 1..Len(calls) : calls[i].fn \in fns}

\* the functions that read a body: the body, part and file handlers
BodyHandlers == {"parseBody", "parsePart", "parseText", "parseFile", "fileFunc"}

\* the error of the traversal: the one Parse returned, or the one a call
\* of parsePart has just returned to its caller
CurrentErr == IF ret.returned THEN ret.err ELSE perr

\* a part read without error whose type is not in the skip-list
Kept(e) == e.part.ok /\ e.ci.Type \notin parser.skipContentTypes

\* a part that is a file by its header: an attachment by disposition, or
\* a binary part that is inline or attached
IsFileEntry(e) ==
    e.part.ok /\ (e.ci.Disposition = "attachment" \/ IsInlineFile(e.ci) \/ IsAttachedFile(e.ci))

\* a part that is a text by its header
IsTextEntry(e) ==
    e.part.ok /\ e.ci.Disposition # "attachment" /\ IsTextType(e.ci.Type)

\* the positions of hist that satisfy P
Entries(P(_)) == {i \in 1..Len(hist) : P(hist[i])}

\* the message is a multipart message: Parse reads it part by part
IsMultipartMessage == HasPrefix(msg.content.Type, <<"multipart", "/">>)

\* C1: in noAttachments mode no file is handled, be it the root, a part
\* with the disposition "attachment" or an inline or attached part: no
\* file is added to the e-mail and the file handler is never called,
\* while every text part that is not skipped is decoded.
C1_NoAttachmentsSkipsFiles ==
    parser.processType = noAttachments =>
        /\ email.Files = <<>>
        /\ CallsOf({"parseFile", "fileFunc"}) = {}
        /\ Cardinality(CallsOf({"parseText"})) =
               Cardinality({i \in Entries(IsTextEntry) : Kept(hist[i])})
               + Cardinality(CallsOf({"parseBody"}))

\* the e-mail Parse returns in headersOnly mode: the headers and the
\* content information of the root, nothing of the body
HeadersOnlyEmail(h) ==
    [ZeroEmail EXCEPT !.Headers = [fields |-> h.h,
                                   ContentInfo |-> ExtractContentInfo(msg.content, NilCI),
                                   ExtraHeaders |-> email.Headers.ExtraHeaders,
                                   tail |-> email.Headers.tail]]

HeadersOnlyResult(h) ==
    h.err = NoErr =>
        ret = [returned |-> TRUE, email |-> <<HeadersOnlyEmail(h)>>, err |-> NoErr]

\* C2: in headersOnly mode Parse returns after the headers are read, with
\* the headers and the root's content information and no text, HTML,
\* enriched text or file, and calls no body, part or file handler.
C2_HeadersOnly ==
    parser.processType = headersOnly =>
        /\ CallsOf(BodyHandlers) = {}
        /\ hist = <<>>
        /\ stack = <<>>
        /\ (pc = "done" /\ msg.readOK /\ msg.content.ok) =>
               HeadersOnlyResult(parseHeaders(parser, msg.header, ZeroHeaders))

\* a headersOnly Parse of a multipart message whose boundary is missing,
\* whose body could not be read, has returned the headers
C2_Witness ==
    /\ parser.processType = headersOnly
    /\ Succeeded
    /\ msg.content.Type = MultipartMixed
    /\ msg.content.Boundary = ""
    /\ ret.email[1].Headers.ContentInfo.Type = MultipartMixed
    /\ ret.email[1].Files = <<>>

\* the step that reads a part whose type is in the skip-list
SkipStep ==
    /\ Len(hist') = Len(hist) + 1
    /\ Kept(hist'[Len(hist')]) = FALSE
    /\ hist'[Len(hist')].part.ok

\* the file parts read so far that Parse was not told to skip
KeptFiles == {i \in Entries(IsFileEntry) : Kept(hist[i])}

\* C3, as the spec states it: a part whose type is in the skip-list adds
\* nothing and raises no error, and after a successful Parse the number of
\* files equals the number of file parts whose type is not in the list.
C3_FilesCountAnyMode ==
    (Succeeded /\ hist # <<>>) => Len(ret.email[1].Files) = Cardinality(KeptFiles)

\* C3, amended: a part whose type is in the skip-list changes nothing of
\* the e-mail, calls no handler and raises no error, whatever else the part
\* is; and in wholeEmail mode, as long as no error has occurred, the number
\* of files of a multipart message equals the number of file parts read
\* whose type is not in the list.
C3_SkipList ==
    /\ [][SkipStep => (email' = email /\ calls' = calls /\ perr' = NoErr
                       /\ ret' = ret /\ stack' = stack /\ pc' = pc)]_vars
    /\ []((parser.processType = wholeEmail /\ IsMultipartMessage /\ CurrentErr = NoErr) =>
              Len(email.Files) = Cardinality(KeptFiles))

\* a successful Parse that met a skipped attachment, a skipped multipart
\* part without boundary, and a file it kept
C3_Witness ==
    /\ Succeeded
    /\ parser.processType = wholeEmail
    /\ \E i \in 1..Len(hist) : /\ ~Kept(hist[i])
                               /\ hist[i].ci.Disposition = "attachment"
    /\ \E i \in 1..Len(hist) : /\ ~Kept(hist[i])
                               /\ hist[i].ci.Type = MultipartRelated
                               /\ hist[i].ci.Boundary = ""
    /\ Len(ret.email[1].Files) = 1

\* a part no branch of the classifier takes: not skipped, not an
\* attachment, not a text, not "multipart/...", not a file, not a calendar
IsUnknownEntry(e) ==
    /\ Kept(e)
    /\ ~IsFileEntry(e)
    /\ ~IsTextType(e.ci.Type)
    /\ ~HasPrefix(e.ci.Type, <<"multipart", "/">>)
    /\ e.ci.Type # TextCalendar

\* C4: a part that no branch takes ends the traversal with an
\* UnknownContentTypeError that carries the part's exact type, and a
\* text/calendar part that reaches the allow-list is passed over without
\* error.
C4_UnknownContentType ==
    \A i \in 1..Len(hist) :
        /\ IsUnknownEntry(hist[i]) =>
               /\ i = Len(hist)
               /\ ErrorsIs(CurrentErr, UnknownContentTypeError(hist[i].ci.Type))
        /\ (Kept(hist[i]) /\ ~IsFileEntry(hist[i]) /\ hist[i].ci.Type = TextCalendar) =>
               ~ErrorsIs(CurrentErr, UnknownContentTypeError(TextCalendar))

\* an error has occurred: a call of parsePart is returning it, or Parse has
ErrorPending == perr # NoErr \/ Failed

\* C5: when Parse returns an error the e-mail it returns is nil, whatever
\* was accumulated; and once an error has occurred no further part is read,
\* no handler is called and nothing is added to the e-mail.
C5_ErrorMeansNil ==
    /\ [](Failed => ret.email = <<>>)
    /\ [](Succeeded => ret.email = <<email>>)
    /\ [][ErrorPending => (hist' = hist /\ calls' = calls /\ email' = email
                           /\ partsLeft' = partsLeft /\ ErrorPending')]_vars

\* Parse has returned the error of a nested part after a text and a file
\* had been accumulated
C5_Witness ==
    /\ Failed
    /\ ret.email = <<>>
    /\ email.Text # <<>>
    /\ email.Files # <<>>
    /\ Len(ret.err.ctx) > 0
    /\ ret.err.ctx[1] = "cannot parse nested part"

\* a text/plain part that parsePart reads as a text
IsPlainEntry(e) == Kept(e) /\ e.ci.Disposition # "attachment" /\ e.ci.Type = TextPlain

\* the decoded texts of the text/plain parts of h, in the order of the parts
RECURSIVE PlainTexts(_)
PlainTexts(h) ==
    IF h = <<>> THEN <<>>
    ELSE (IF IsPlainEntry(Head(h)) /\ parseText(Head(h).part.body, Head(h).ci).err = NoErr
          THEN <<parseText(Head(h).part.body, Head(h).ci).text>>
          ELSE <<>>)
         \o PlainTexts(Tail(h))

\* the texts ts with one "\n\n" between each consecutive pair
RECURSIVE Join(_)
Join(ts) ==
    IF ts = <<>> THEN <<>>
    ELSE IF Len(ts) = 1 THEN ts[1]
    ELSE ts[1] \o <<10, 10>> \o Join(Tail(ts))

\* the texts ts without the empty texts before the first that is not empty
RECURSIVE DropLeadingEmpty(_)
DropLeadingEmpty(ts) ==
    IF ts # <<>> /\ ts[1] = <<>> THEN DropLeadingEmpty(Tail(ts)) ELSE ts

\* C6, as the spec states it: the Text of a multipart message is the
\* decoded texts of its text/plain parts, in the order of the parts, with
\* exactly one "\n\n" between each consecutive pair of parts.
C6_JoinedByBlankLine ==
    (Succeeded /\ IsMultipartMessage) => ret.email[1].Text = Join(PlainTexts(hist))

\* C6, amended: the Text of a multipart message is the decoded texts of its
\* text/plain parts, in the order of the parts, without the empty texts that
\* come before the first text that is not empty, and with exactly one
\* "\n\n" between each consecutive pair of those that remain.
C6_JoinedAfterFirstText ==
    IsMultipartMessage =>
        /\ email.Text = Join(DropLeadingEmpty(PlainTexts(hist)))
        /\ Succeeded => ret.email[1].Text = Join(DropLeadingEmpty(PlainTexts(hist)))

\* a successful Parse of three text/plain parts, the first of them empty
C6_Witness ==
    /\ Succeeded
    /\ IsMultipartMessage
    /\ Len(PlainTexts(hist)) = 3
    /\ PlainTexts(hist)[1] = <<>>
    /\ ret.email[1].Text = <<97, 10, 10, 98>>

\* the text has no CRLF and no ASCII white space at either end
IsNormalized(t) ==
    /\ \A i \in 1..(Len(t) - 1) : ~(t[i] = 13 /\ t[i + 1] = 10)
    /\ t # <<>> => (t[1] \notin AsciiSpace /\ t[Len(t)] \notin AsciiSpace)

\* what Parse returns for a text/plain root whose decoded body is d
PlainRootResult(d) ==
    IF d.ok
    THEN /\ Succeeded
         /\ ret.email[1].Text = TrimSpace(ReplaceCRLF(d.bytes))
         /\ IsNormalized(ret.email[1].Text)
         /\ ret.email[1].EnrichedText = <<>>
         /\ ret.email[1].HTML = <<>>
         /\ ret.email[1].Files = <<>>
    ELSE Failed /\ ret.email = <<>>

\* the body after the transfer decoding and then the charset decoding
DecodedBody ==
    CharsetDecode(TransferDecode(msg.body, ExtractContentInfo(msg.content, NilCI)),
                  ExtractContentInfo(msg.content, NilCI))

\* C7: for a message whose root is text/plain and whose headers parse, in
\* a mode other than headersOnly, Text is the body transfer-decoded, then
\* charset-decoded, with every CRLF replaced by LF and the white space at
\* both ends removed, and EnrichedText, HTML and Files are empty; a body
\* that cannot be decoded makes Parse fail.
C7_RootPlainText ==
    (/\ pc = "done"
     /\ msg.readOK
     /\ msg.content.ok
     /\ msg.content.Type = TextPlain
     /\ parser.processType # headersOnly
     /\ parseHeaders(parser, msg.header, ZeroHeaders).err = NoErr)
        => PlainRootResult(DecodedBody)

\* a quoted-printable Latin-1 body with white space that was decoded,
\* normalised and trimmed to a text different from the body
C7_Witness ==
    /\ Succeeded
    /\ msg.content.Type = TextPlain
    /\ msg.content.TransferEncoding = "quoted-printable"
    /\ msg.content.Charset = "iso-8859-1"
    /\ Len(msg.body) = MaxBody
    /\ ret.email[1].Text # <<>>
    /\ Len(ret.email[1].Text) < Len(msg.body)

\* a part of type multipart/... that parsePart is to read part by part
IsNestedMultipart(e) ==
    Kept(e) /\ e.ci.Disposition # "attachment" /\ HasPrefix(e.ci.Type, <<"multipart", "/">>)

\* the framing error of a multipart without boundary
IsBoundaryError(e) == e.msg = "multipart: boundary is empty"

\* C8, as the spec states it: a root or a part of type multipart/...
\* without boundary makes Parse fail.
C8_MissingBoundaryAlwaysFatal ==
    (/\ pc = "done"
     /\ msg.readOK
     /\ msg.content.ok
     /\ \/ IsMultipartMessage /\ msg.content.Boundary = ""
        \/ \E i \in 1..Len(hist) : /\ hist[i].part.ok
                                   /\ HasPrefix(hist[i].ci.Type, <<"multipart", "/">>)
                                   /\ hist[i].ci.Boundary = "")
        => Failed

\* C8, amended: a multipart/... without boundary that Parse is to read part
\* by part makes Parse fail with the framing error and return no e-mail:
\* the root in a mode other than headersOnly, and a part whose type is not
\* in the skip-list and whose disposition is not "attachment".
C8_MissingBoundaryFatal ==
    (/\ pc = "done"
     /\ msg.readOK
     /\ msg.content.ok
     /\ \/ /\ IsMultipartMessage
           /\ msg.content.Boundary = ""
           /\ parser.processType # headersOnly
        \/ \E i \in 1..Len(hist) : /\ IsNestedMultipart(hist[i])
                                   /\ hist[i].ci.Boundary = "")
        => (Failed /\ IsBoundaryError(ret.err) /\ ret.email = <<>>)

\* Parse has failed on a nested multipart/related part without boundary
\* after it had read a text
C8_Witness ==
    /\ Failed
    /\ IsBoundaryError(ret.err)
    /\ hist # <<>>
    /\ IsNestedMultipart(hist[Len(hist)])
    /\ hist[Len(hist)].ci.Boundary = ""
    /\ email.Text # <<>>

\* Parse has come past parseHeaders, or has returned its error
HeadersRead ==
    msg.readOK /\ msg.content.ok /\ pc \notin {"ReadMessage", "ExtractContentInfo", "parseHeaders"}

\* the address-bearing and the date-bearing headers
AddressOrDate == Range(AddressHeaders) \cup Range(DateHeaders)

\* the place of header f in the order parseHeaders reads the headers in
Position(f) == CHOOSE i \in 1..Len(HeaderOrder) : HeaderOrder[i] = f

\* the calls of an injected function made for header f
CallsFor(f) == {i \in 1..Len(calls) : calls[i].field = f}

\* header f has been read: its function was called, its field was set, or
\* Parse returned the error of reading it
WasRead(f) ==
    \/ CallsFor(f) # {}
    \/ email.Headers.fields[f] # ZeroHeaders[f]
    \/ (Failed /\ f \in Range(ret.err.ctx))

\* no header read before g has a value
FirstValue(g) == \A k \in 1..(Position(g) - 1) : msg.header[HeaderOrder[k]] = <<>>

\* C9: an address or date header that is missing or empty leaves its field
\* absent (nil, or the zero time), has no injected function called for it
\* and causes no error, and parseHeaders goes on to the headers after it.
C9_EmptyHeaderAbsent ==
    HeadersRead =>
        /\ \A f \in AddressOrDate :
               msg.header[f] = <<>> =>
                   /\ email.Headers.fields[f] = ZeroHeaders[f]
                   /\ email.Headers.fields[f] \in {Nil, ZeroTime}
                   /\ CallsFor(f) = {}
                   /\ f \notin Range(ret.err.ctx)
        /\ \A g \in HeaderNames \ {"Sender"} :
               (msg.header[g] # <<>> /\ FirstValue(g)) => WasRead(g)

\* Parse has succeeded on a message without Sender and without From whose
\* Date was read by the date function
C9_Witness ==
    /\ Succeeded
    /\ msg.header["Sender"] = <<>>
    /\ msg.header["From"] = <<>>
    /\ msg.header["Date"] # <<>>
    /\ CallsFor("Date") # {}
    /\ CallsFor("Sender") = {}
    /\ ret.email[1].Headers.fields["Sender"] = Nil
    /\ ret.email[1].Headers.fields["Date"] # ZeroTime

\* the injected function that reads header f, and what the default one is
FuncOf(f) ==
    IF f \in {"Sender", "Resent-Sender"}
    THEN [name |-> "addressFunc", fn |-> parser.addressFunc, default |-> "mail.ParseAddress",
          wellFormed |-> WellFormedAddress, zero |-> Nil]
    ELSE IF f \in Range(AddressHeaders)
    THEN [name |-> "addressesFunc", fn |-> parser.addressesFunc,
          default |-> "mail.ParseAddressList", wellFormed |-> WellFormedAddress, zero |-> Nil]
    ELSE [name |-> "dateFunc", fn |-> parser.dateFunc, default |-> "mail.ParseDate",
          wellFormed |-> WellFormedDate, zero |-> ZeroTime]

\* the encoded words of header f decode; a date is not decoded
Decodes(f) == f \in Range(DateHeaders) \/ DecodeHeader(msg.header[f]).err = NoErr

\* the string the injected function is given for header f
HeaderString(f) ==
    IF f \in Range(DateHeaders) THEN msg.header[f] ELSE DecodeHeader(msg.header[f]).val

\* what the injected function returns for header f: [val, err]
Injected(f) ==
    Apply(FuncOf(f).fn, FuncOf(f).default, FuncOf(f).wellFormed, FuncOf(f).zero,
          HeaderString(f))

\* reading header f ends parseHeaders
EndsParse(f) ==
    /\ msg.header[f] # <<>>
    /\ IF f \in AddressOrDate THEN ~Decodes(f) \/ Injected(f).err # NoErr
       ELSE DecodeHeader(TrimTokens(msg.header[f])).err # NoErr

\* parseHeaders comes to header f
Reached(f) == \A k \in 1..(Position(f) - 1) : ~EndsParse(HeaderOrder[k])

\* C10: for a non-empty address or date header that parseHeaders comes to
\* and whose encoded words decode, the injected function is called once,
\* with the header string; the field is the value the function returns;
\* and when the function returns an error Parse returns no e-mail and that
\* error, wrapped with the name of the header, so that it is never taken
\* for the empty value.
C10_InjectedFunction ==
    HeadersRead =>
        \A f \in AddressOrDate :
            (msg.header[f] # <<>> /\ Reached(f) /\ Decodes(f)) =>
                /\ Cardinality(CallsFor(f)) = 1
                /\ \A i \in CallsFor(f) :
                       calls[i].fn = FuncOf(f).name /\ calls[i].arg = HeaderString(f)
                /\ email.Headers.fields[f] = Injected(f).val
                /\ IF Injected(f).err = NoErr
                   THEN f \notin Range(ret.err.ctx)
                   ELSE ret = [returned |-> TRUE, email |-> <<>>,
                               err |-> Wrap("cannot parse headers", Wrap(f, Injected(f).err))]

\* Parse has failed with the error of a custom function that was given the
\* decoded From header
C10_Witness ==
    /\ Failed
    /\ parser.addressesFunc = "failing"
    /\ msg.header["From"] = EncodedWord("utf-8", "a@x")
    /\ \E i \in CallsFor("From") : calls[i].arg = <<"a@x">>
    /\ ret.err = Wrap("cannot parse headers",
                      Wrap("From", NewErr("custom failure", <<"a@x">>)))

\* C11: the injected address function and address-list function are never
\* called with the empty string, whatever the raw value of the header,
\* a value whose encoded words decode to nothing included.
C11_NeverEmptyArgument ==
    \A i \in 1..Len(calls) :
        calls[i].fn \in {"addressFunc", "addressesFunc"} => calls[i].arg # <<>>

\* the value list of ExtraHeaders for the occurrences vs of a header: one
\* entry per occurrence, in their order, decoded where the value decodes
IsListOf(l, vs) ==
    /\ Len(l) = Len(vs)
    /\ \A i \in 1..Len(vs) : DecodeHeader(vs[i]).err = NoErr => l[i] = DecodeHeader(vs[i]).val

\* C12: after parseHeaders no name of the explicit set is a key of
\* ExtraHeaders, and every other name of the raw header is a key of
\* ExtraHeaders whose list has one entry per occurrence, in the original
\* order, duplicates kept; ExtraHeaders has no other key, and after a
\* successful Parse the explicit headers read are in their own fields.
C12_OneDestination ==
    HeadersRead =>
        /\ DOMAIN email.Headers.ExtraHeaders \cap explicitHeaders = {}
        /\ DOMAIN email.Headers.ExtraHeaders = Keys(msg) \ explicitHeaders
        /\ \A k \in DOMAIN email.Headers.ExtraHeaders :
               IsListOf(email.Headers.ExtraHeaders[k], Values(msg, k))
        /\ Succeeded =>
               /\ \A k \in Keys(msg) \cap HeaderNames :
                      email.Headers.fields[k] # ZeroHeaders[k]
               /\ "Received" \in Keys(msg) =>
                      email.Headers.tail.Received.arg = Values(msg, "Received")

\* a successful Parse of a message with a Subject, two Received headers
\* and the same X-Mailer header twice
C12_Witness ==
    /\ Succeeded
    /\ msg.header["Subject"] # <<>>
    /\ Len(msg.raw["Received"]) = 2
    /\ msg.raw["X-Mailer"] = <<EncodedWord("utf-8", "hi"), EncodedWord("utf-8", "hi")>>
    /\ msg.raw["X-Tag"] # <<>>
    /\ ret.email[1].Headers.ExtraHeaders["X-Mailer"] = <<<<"hi">>, <<"hi">>>>
    /\ DOMAIN ret.email[1].Headers.ExtraHeaders = ExtraNames

\* the headers whose values parseHeaders decodes
DecodedNames == Range(AddressHeaders) \cup Range(StringHeaders) \cup ExtraNames

\* header k has a value whose encoded words do not decode
FailsToDecode(k) ==
    \E i \in 1..Len(Values(msg, k)) : DecodeHeader(Values(msg, k)[i]).err # NoErr

\* C13: a header value whose encoded words do not decode makes Parse fail,
\* whichever header it is, explicit or extra: no decoding error is
\* dropped while Parse succeeds.
C13_DecodeErrorsFatal ==
    (/\ pc = "done"
     /\ msg.readOK
     /\ msg.content.ok
     /\ \E k \in DecodedNames : FailsToDecode(k))
        => Failed

\* C14: at every depth the ContentInfo of a part is its own header merged
\* with the ContentInfo of the multipart it is a part of, the parentCI of
\* the call of parsePart that reads it: a part that declares no charset or
\* transfer encoding has those of that multipart, not those of the root.
C14_InheritsFromParent ==
    \A i \in 1..Len(hist) :
        hist[i].part.ok => hist[i].ci = ExtractContentInfo(hist[i].part, hist[i].parent)

\* a part with the disposition "attachment" whose type is not skipped
IsAttachmentEntry(e) == Kept(e) /\ e.ci.Disposition = "attachment"

\* a part that parsePart hands to parseFile: an attachment by disposition
\* in every mode, an inline or attached binary part in wholeEmail mode
IsFiledEntry(e) ==
    /\ Kept(e)
    /\ \/ e.ci.Disposition = "attachment"
       \/ parser.processType = wholeEmail /\ (IsInlineFile(e.ci) \/ IsAttachedFile(e.ci))

\* the decoded texts of the parts of h of type t that are no attachments,
\* one after the other
RECURSIVE TextsOfType(_, _)
TextsOfType(h, t) ==
    IF h = <<>> THEN <<>>
    ELSE (IF /\ Kept(Head(h))
             /\ Head(h).ci.Disposition # "attachment"
             /\ Head(h).ci.Type = t
             /\ parseText(Head(h).part.body, Head(h).ci).err = NoErr
          THEN parseText(Head(h).part.body, Head(h).ci).text
          ELSE <<>>)
         \o TextsOfType(Tail(h), t)

\* the files of the e-mail that come from parts with the disposition
\* "attachment"
AttachmentFiles ==
    {i \in 1..Len(email.Files) : email.Files[i].ContentInfo.Disposition = "attachment"}

RootHandlers == {"parseBody", "parsePart", "parseFile"}

IsRootHandlerCall(c) == c.fn \in RootHandlers

\* the handler the spec gives the root of type t
HandlerOfType(t) ==
    IF t \in {<<"text", "/", "plain">>, <<"text", "/", "enriched">>, <<"text", "/", "html">>}
    THEN "parseBody"
    ELSE IF Len(t) >= 2 /\ t[1] = "multipart" /\ t[2] = "/" THEN "parsePart"
    ELSE "parseFile"

\* the calls cs of handlers are those of a root dispatch to handler f:
\* f first; parseBody and parseFile once and nothing else; parsePart never
\* with parseBody
IsDispatchTo(f, cs) ==
    /\ cs # <<>>
    /\ cs[1].fn = f
    /\ f # "parsePart" => (Len(cs) = 1 /\ hist = <<>>)
    /\ f = "parsePart" => \A i \in 1..Len(cs) : cs[i].fn # "parseBody"

\* Parse has returned the error of parseHeaders
IsHeadersError == Failed /\ ret.err.ctx # <<>> /\ ret.err.ctx[1] = "cannot parse headers"

NestedEntries == {i \in 1..Len(hist) : hist[i].class = "recurse"}

\* the parts of the message not yet read, when Parse begins
InitialParts == IF IsMultipartMessage THEN MaxParts ELSE 0

\* C17: Parse returns, with an e-mail or an error, for every message: each
\* part of the input is read once, in the order of the input, so that the
\* parts read and the parts left are the parts of the message; the calls
\* of parsePart in progress are never more than the multipart parts read
\* and the root; no part is read after the first error of parsePart.
C17_ParseReturns ==
    /\ [](Len(hist) + partsLeft = InitialParts)
    /\ [](Len(stack) <= 1 + Cardinality(NestedEntries))
    /\ [][Len(hist') \in {Len(hist), Len(hist) + 1} /\ SubSeq(hist', 1, Len(hist)) = hist]_vars
    /\ [][perr # NoErr => hist' = hist]_vars
    /\ <>(pc = "done" /\ ret.returned)

\* Parse has returned after it read every part of a message with a
\* multipart part inside a multipart part
C17_Witness ==
    /\ pc = "done"
    /\ ret.returned
    /\ partsLeft = 0
    /\ Len(hist) = MaxParts
    /\ \E i \in 1..(Len(hist) - 1) : hist[i].class = "recurse" /\ hist[i + 1].depth = 2

\* the length of the longest prefix of s without white space
RECURSIVE WordLen(_)
WordLen(s) == IF s = <<>> \/ s[1] \in WhiteChars THEN 0 ELSE 1 + WordLen(Drop(s, 1))

\* the words of s: what lies between its runs of spaces, tabs and line breaks
RECURSIVE Words(_)
Words(s) ==
    IF s = <<>> THEN <<>>
    ELSE IF s[1] \in WhiteChars THEN Words(Drop(s, 1))
    ELSE <<SubSeq(s, 1, WordLen(s))>> \o Words(Drop(s, WordLen(s)))

\* the words of s without their angle brackets, the empty ones left out
WordIDs(s) ==
    SelectSeq([i \in 1..Len(Words(s)) |-> Trim(Words(s)[i], {"<", ">"} \cup WhiteChars)],
              NonEmpty)

\* C18: after a successful Parse, InReplyTo and References are the words
\* of the first In-Reply-To and References value, split at every run of
\* spaces, tabs and line breaks, each without its angle brackets, in the
\* order of the value, and are nil when there is no such word.
C18_IdsSplitOnWhitespace ==
    Succeeded =>
        /\ ret.email[1].Headers.tail.InReplyTo = ListField(WordIDs(GetRaw(msg, "In-Reply-To")))
        /\ ret.email[1].Headers.tail.References = ListField(WordIDs(GetRaw(msg, "References")))

====
